---- MODULE Spec2Model ----
(***************************************************************************)
(* Model of the search-and-selection core of tqa-agent: the forkable       *)
(* ReasoningContext (core/reasoning_context.py), the MCTS node and runner  *)
(* (core/mcts_node.py, core/mcts.py), the search heuristics                *)
(* (core/heuristics.py), the execution agent and the Finish /              *)
(* GeneralRetrieval actions it dispatches to, and the candidate check of   *)
(* run_pipeline (main.py).                                                 *)
(*                                                                         *)
(* Python objects live in a heap: a context, a path, a dict and a list are *)
(* each a cell of a sequence and are referred to by their index, so that   *)
(* two names for one object are visibly aliases.  Rewards and Q are exact  *)
(* rationals <<numerator, denominator>>.                                   *)
(***************************************************************************)
EXTENDS Integers, Sequences, FiniteSets, TLC

VARIABLES
    heap,        \* [ctxs, paths, dicts, lists]: the Python objects
    nodes,       \* the MCTSNode objects, index 1 is the root
    candidates,  \* run's local list `candidates`: path references
    cfg,         \* the arguments of run and the fields of the runner
    it,          \* iterations of the for loop started so far
    pc,          \* position of the run: "loop", "break", "returned", "answered",
                 \* "raised", "propagated"; other values in the experiments
    result,      \* the list returned by run
    last,        \* what the latest iteration did (history)
    hist,        \* per node: passes and sum of the rewards backpropagated through
                 \* it, and the reward it was created with (history)
    fk,          \* fork experiment: the two contexts and the latest write
    sel,         \* selection experiment: the node _select returned
    call         \* single-call experiments: the arguments and the outcome

vars == <<heap, nodes, candidates, cfg, it, pc, result, last, hist, fk, sel, call>>

(***************************************************************************)
(* Bounds of the model.                                                    *)
(***************************************************************************)
MaxIters == 3
MaxCand == 2
MaxDepth == 2
MaxForkOps == 3
MaxChildren == 2
MaxProposals == 3

None == "None"

(***************************************************************************)
(* Heap primitives.                                                        *)
(***************************************************************************)
Range(s) == {s[i] : i \in DOMAIN s}

EmptyDict == <<>>

DictSet(d, k, v) == [x \in (DOMAIN d) \cup {k} |-> IF x = k THEN v ELSE d[x]]

DictDel(d, k) == [x \in (DOMAIN d) \ {k} |-> d[x]]

\* {**b, **a}: on a shared key the left map's value stays.
DictMergeLeftWins(a, b) == [x \in (DOMAIN a) \cup (DOMAIN b) |-> IF x \in DOMAIN a THEN a[x] ELSE b[x]]

\* {**a, **b}
DictMerge(a, b) == [x \in (DOMAIN a) \cup (DOMAIN b) |-> IF x \in DOMAIN b THEN b[x] ELSE a[x]]

EmptyHeap == [ctxs |-> <<>>, paths |-> <<>>, dicts |-> <<>>, lists |-> <<>>]

\* ReasoningPath(steps=.., final_answer=.., terminal=.., total_score=.., meta=..)
NewPath(h, steps, final_answer, terminal, total_score, meta) ==
    [h EXCEPT !.lists = Append(@, steps),
              !.dicts = Append(@, meta),
              !.paths = Append(@, [steps |-> Len(h.lists) + 1,
                                   final_answer |-> final_answer,
                                   terminal |-> terminal,
                                   total_score |-> total_score,
                                   meta |-> Len(h.dicts) + 1])]

\* ReasoningContext(table, view, question, memory, path, done, answer, depth)
\* with a fresh dict for memory and a fresh ReasoningPath
NewCtx(h, table, view, question, memory, steps, final_answer, terminal, total_score, meta, done, answer, depth) ==
    LET h1 == NewPath(h, steps, final_answer, terminal, total_score, meta)
    IN [h1 EXCEPT !.dicts = Append(@, memory),
                  !.ctxs = Append(@, [table |-> table,
                                      view |-> IF view = 0 THEN table ELSE view,
                                      question |-> question,
                                      memory |-> Len(h1.dicts) + 1,
                                      path |-> Len(h1.paths),
                                      done |-> done,
                                      answer |-> answer,
                                      depth |-> depth])]

\* The reference of the object the latest NewCtx / fork allocated.
NewestCtx(h) == Len(h.ctxs)

PathOf(h, c) == h.paths[h.ctxs[c].path]
MemoryOf(h, c) == h.dicts[h.ctxs[c].memory]
StepsOf(h, c) == h.lists[PathOf(h, c).steps]
MetaOf(h, c) == h.dicts[PathOf(h, c).meta]

\* A fork written with memory=self.memory: the path is copied as above, the
\* memory dict is the source's own.
ForkSharedMemory(h, c) ==
    LET src == h.ctxs[c]
        p == h.paths[src.path]
        h1 == NewPath(h, h.lists[p.steps], p.final_answer, p.terminal,
                      p.total_score, h.dicts[p.meta])
    IN [h1 EXCEPT !.ctxs = Append(@, [src EXCEPT !.path = Len(h1.paths)])]

\* ReasoningContext.fork: table/view shared, memory, steps and meta copied
\* into fresh objects, scalars copied by value.
\* fork with steps=list(self.path.steps) replaced by the source's own list.
ForkSharedSteps(h, c) ==
    LET src == h.ctxs[c]
        p == h.paths[src.path]
        h1 == NewCtx(h, src.table, src.view, src.question, h.dicts[src.memory],
                     <<>>, p.final_answer, p.terminal, p.total_score,
                     h.dicts[p.meta], src.done, src.answer, src.depth)
    IN [h1 EXCEPT !.paths[Len(h1.paths)].steps = p.steps]

Fork(h, c) ==
    LET src == h.ctxs[c]
        p == h.paths[src.path]
    IN NewCtx(h, src.table, src.view, src.question, h.dicts[src.memory],
              h.lists[p.steps], p.final_answer, p.terminal, p.total_score,
              h.dicts[p.meta], src.done, src.answer, src.depth)

\* Everything reachable from context c, dereferenced.
View(h, c) ==
    [table |-> h.ctxs[c].table,
     view |-> h.ctxs[c].view,
     question |-> h.ctxs[c].question,
     memory |-> MemoryOf(h, c),
     steps |-> StepsOf(h, c),
     final_answer |-> PathOf(h, c).final_answer,
     terminal |-> PathOf(h, c).terminal,
     total_score |-> PathOf(h, c).total_score,
     meta |-> MetaOf(h, c),
     done |-> h.ctxs[c].done,
     answer |-> h.ctxs[c].answer,
     depth |-> h.ctxs[c].depth]

\* Writes through a context reference.
SetMemory(h, c, k, v) == [h EXCEPT !.dicts[h.ctxs[c].memory] = DictSet(@, k, v)]
DelMemory(h, c, k) == [h EXCEPT !.dicts[h.ctxs[c].memory] = DictDel(@, k)]
\* The step of a failed action left out of the path.
AppendStepOkOnly(h, c, step) ==
    IF "ok" \in DOMAIN step.observation THEN h
    ELSE [h EXCEPT !.lists[PathOf(h, c).steps] = Append(@, step)]

AppendStep(h, c, step) == [h EXCEPT !.lists[PathOf(h, c).steps] = Append(@, step)]
SetMeta(h, c, k, v) == [h EXCEPT !.dicts[PathOf(h, c).meta] = DictSet(@, k, v)]
\* ctx.done = b as an assignment that is lost.
SetDoneLost(h, c, b) == h

SetDone(h, c, b) == [h EXCEPT !.ctxs[c].done = b]
SetAnswer(h, c, a) == [h EXCEPT !.ctxs[c].answer = a]
\* ctx.depth = d as an assignment that is lost.
SetDepthLost(h, c, d) == h

SetDepth(h, c, d) == [h EXCEPT !.ctxs[c].depth = d]
SetTerminal(h, c, b) == [h EXCEPT !.paths[h.ctxs[c].path].terminal = b]
SetFinalAnswer(h, c, a) == [h EXCEPT !.paths[h.ctxs[c].path].final_answer = a]
SetTotalScore(h, c, s) == [h EXCEPT !.paths[h.ctxs[c].path].total_score = s]

(***************************************************************************)
(* Exact rationals <<n, d>>, d > 0, in lowest terms: rewards, Q and        *)
(* total_score.                                                            *)
(***************************************************************************)
Abs(x) == IF x < 0 THEN -x ELSE x

RECURSIVE GCD(_, _)
GCD(a, b) == IF b = 0 THEN a ELSE GCD(b, a % b)

RNorm(n, d) ==
    IF n = 0 THEN <<0, 1>>
    ELSE LET g == GCD(Abs(n), d) IN <<n \div g, d \div g>>

RSub(a, b) == RNorm(a[1] * b[2] - b[1] * a[2], a[2] * b[2])
RAdd(a, b) == RNorm(a[1] * b[2] + b[1] * a[2], a[2] * b[2])
RDivInt(a, k) == RNorm(a[1], a[2] * k)
RLess(a, b) == a[1] * b[2] < b[1] * a[2]
RZero == <<0, 1>>

(***************************************************************************)
(* ucb_score, in thousandths.  A score is <<1, 0>> for +inf, <<-1, 0>> for *)
(* -inf and <<0, v>> for the finite value v / 1000.  ln is tabulated in    *)
(* millionths; the exploration constant c is given in tenths.              *)
(***************************************************************************)
LnMicro ==
    <<0, 693147, 1098612, 1386294, 1609438, 1791759, 1945910, 2079442,
      2197225, 2302585, 2397895, 2484907, 2564949, 2639057, 2708050, 2772589>>

RECURSIVE ISqrtIn(_, _, _)
ISqrtIn(v, lo, hi) ==
    IF lo = hi THEN lo
    ELSE LET mid == (lo + hi + 1) \div 2
         IN IF mid * mid <= v THEN ISqrtIn(v, mid, hi) ELSE ISqrtIn(v, lo, mid - 1)

\* floor(sqrt(v)) for the values ln(x) / n takes in millionths
ISqrt(v) == ISqrtIn(v, 0, 2000)

PlusInf == <<1, 0>>
MinusInf == <<-1, 0>>
Finite(v) == <<0, v>>

\* s > t on scores
ScoreGt(s, t) == \/ s[1] > t[1]
                 \/ s[1] = 0 /\ t[1] = 0 /\ s[2] > t[2]

Max2(a, b) == IF a >= b THEN a ELSE b

\* ucb_score with the child_N == 0 case answering the child's Q alone.
UcbNoInf(parent_N, child_Q, child_N, c) ==
    IF child_N = 0
    THEN Finite((1000 * child_Q[1]) \div child_Q[2])
    ELSE Finite(((1000 * child_Q[1]) \div child_Q[2])
                + (c * ISqrt(LnMicro[Max2(1, parent_N)] \div child_N)) \div 10)

ucb_score(parent_N, child_Q, child_N, c) ==
    IF child_N = 0
    THEN PlusInf
    ELSE Finite(((1000 * child_Q[1]) \div child_Q[2])
                + (c * ISqrt(LnMicro[Max2(1, parent_N)] \div child_N)) \div 10)

(***************************************************************************)
(* MCTSNode and its children dict.  A Python dict keeps insertion order:   *)
(* children is the sequence of <<key, node>> items in that order.          *)
(***************************************************************************)
MCTSNode(ctx, parent, last_action_index) ==
    [ctx |-> ctx, parent |-> parent, children |-> <<>>, N |-> 0, Q |-> RZero,
     last_action_index |-> last_action_index]

ChildKeys(children) == {children[i][1] : i \in DOMAIN children}

ChildAt(children, k) ==
    LET i == CHOOSE j \in DOMAIN children : children[j][1] = k IN children[i][2]

\* node.children[k] = child
ChildPut(children, k, child) ==
    IF k \in ChildKeys(children)
    THEN [i \in DOMAIN children |->
             IF children[i][1] = k THEN <<k, child>> ELSE children[i]]
    ELSE Append(children, <<k, child>>)

(***************************************************************************)
(* SearchHeuristics.                                                       *)
(***************************************************************************)
\* should_stop with a strict comparison.
ShouldStopStrict(max_depth, depth) == depth > max_depth

should_stop(max_depth, depth) == depth >= max_depth

\* should_expand written with a strict comparison.
ShouldExpandStrict(min_score_to_expand, score) == RLess(min_score_to_expand, score)

should_expand(min_score_to_expand, score) == ~RLess(score, min_score_to_expand)

(***************************************************************************)
(* MCTSRunner._select, _pick_untried_or_best, _backprop.                   *)
(***************************************************************************)
\* The for loop of _select over node.children.items(), from item i on, with
\* the best key and score so far.
RECURSIVE BestKey(_, _, _, _, _, _)
BestKey(ns, n, c, i, best_k, best_s) ==
    IF i > Len(ns[n].children) THEN best_k
    ELSE LET k == ns[n].children[i][1]
             ch == ns[ns[n].children[i][2]]
             s == ucb_score(ns[n].N + 1, ch.Q, ch.N, c)
         IN IF ScoreGt(s, best_s)
            THEN BestKey(ns, n, c, i + 1, k, s)
            ELSE BestKey(ns, n, c, i + 1, best_k, best_s)

RECURSIVE SelectFrom(_, _, _, _)
SelectFrom(h, ns, c, n) ==
    IF Len(ns[n].children) > 0 /\ ~h.ctxs[ns[n].ctx].done
    THEN \* node = node.children[best_k], the child worked out once
         CHOOSE leaf \in {SelectFrom(h, ns, c, child) :
                              child \in {ChildAt(ns[n].children,
                                                 BestKey(ns, n, c, 1, None, MinusInf))}} : TRUE
    ELSE n

\* _select without its while loop: the root is returned.
SelectRoot(h, ns, c) == 1

\* _select(root)
Select(h, ns, c) == SelectFrom(h, ns, c, 1)

RECURSIVE FirstUntried(_, _, _)
FirstUntried(keys, len, i) ==
    IF i >= len THEN 0
    ELSE IF i \notin keys THEN i ELSE FirstUntried(keys, len, i + 1)

\* _pick_untried_or_best without the test on node.children.
PickFirst(children, action_specs) == <<0, action_specs[1]>>

\* _pick_untried_or_best answering the last proposal.
PickLast(children, action_specs) ==
    <<Len(action_specs) - 1, action_specs[Len(action_specs)]>>

\* _pick_untried_or_best: the position (counted from 0) and the spec there
PickUntriedOrBest(children, action_specs) ==
    LET i == FirstUntried(ChildKeys(children), Len(action_specs), 0)
    IN <<i, action_specs[i + 1]>>

\* The running-mean update of _backprop without the division by N.
MeanUpdateNoDiv(Q, reward, N) == RAdd(Q, RSub(reward, Q))

\* cur.Q += (reward - cur.Q) / cur.N, N already incremented
MeanUpdate(Q, reward, N) == RAdd(Q, RDivInt(RSub(reward, Q), N))

RECURSIVE BackpropFrom(_, _, _)
BackpropFrom(ns, n, reward) ==
    IF n = 0 THEN ns
    ELSE BackpropFrom([ns EXCEPT ![n].N = @ + 1,
                                 ![n].Q = MeanUpdate(@, reward, ns[n].N + 1)],
                      ns[n].parent, reward)

\* _backprop started at the parent of the node it is given.
BackpropAbove(ns, n, reward) ==
    IF n = 0 THEN ns ELSE BackpropFrom(ns, ns[n].parent, reward)

RECURSIVE Backprop(_, _, _)
Backprop(ns, n, reward) ==
    IF n = 0 THEN ns
    ELSE Backprop([ns EXCEPT ![n].N = @ + 1,
                             ![n].Q = MeanUpdate(@, reward, ns[n].N + 1)],
                  ns[n].parent, reward)

\* The nodes _backprop(n, .) walks through: n and its ancestors.
RECURSIVE Ancestors(_, _)
Ancestors(ns, n) == IF n = 0 THEN {} ELSE {n} \cup Ancestors(ns, ns[n].parent)

(***************************************************************************)
(* Action registry, build_action, and the actions the runner is exercised  *)
(* with.  An action spec is a dict from field names to values.             *)
(***************************************************************************)
penalize_on_error == -1000000

\* Dataclass fields of each registered class, with their defaults.
ActionDefaults(typ) ==
    IF typ = "Finish"
    THEN [approx_cost |-> "0.0", TYPE |-> "Finish", answer_from |-> None, literal |-> None]
    ELSE [approx_cost |-> "0.0", TYPE |-> "GeneralRetrieval", query |-> "", topk |-> 3,
          use_llm |-> TRUE, out_key |-> "general_knowledge"]

ACTION_REGISTRY == {"Finish", "GeneralRetrieval"}

\* Python values of an action spec, tagged with their type so that values
\* of different types can sit in one field.
PyStr(v) == [str |-> v]
PyInt(v) == [int |-> v]
PyBool(v) == [bool |-> v]
PyNone == [none |-> None]
PyList(v) == [list |-> v]
PyDict(v) == [dict |-> v]

\* The value under the tag.
Val(x) == x[CHOOSE t \in DOMAIN x : TRUE]

\* A well-typed field value, tagged by the declared type of its field.
Tagged(f, v) ==
    IF f = "topk" THEN PyInt(v)
    ELSE IF f = "use_llm" THEN PyBool(v)
    ELSE IF v = None THEN PyNone
    ELSE PyStr(v)

\* A spec given as a plain map of well-typed fields, as a Python dict.
Py(spec) == PyDict([f \in DOMAIN spec |-> Tagged(f, spec[f])])

\* Action.validate / GeneralRetrieval.validate on an instance of class cls:
\* "ok" when it returns, else the name of the exception it raises.
Validate(cls, act) ==
    IF cls = "GeneralRetrieval"
    THEN \* self.topk <= 0
         IF "int" \in DOMAIN act.topk
         THEN IF act.topk.int <= 0 THEN "ActionError" ELSE "ok"
         ELSE IF "bool" \in DOMAIN act.topk
              THEN IF act.topk.bool THEN "ok" ELSE "ActionError"
              ELSE "TypeError"
    ELSE "ok"

\* What build_action gives when it raises exception exc.
BuildRaised(exc) == [raised |-> exc, cls |-> None, action |-> EmptyDict]

\* Line 37: act.validate(), then the instance is returned.
Validated(cls, act, v) ==
    IF v = "ok" THEN [raised |-> None, cls |-> cls, action |-> act]
    ELSE BuildRaised(v)

\* Lines 29-35: cls(**kwargs) with the dataclass defaults d of cls.
Construct(cls, spec, d) ==
    IF ~((DOMAIN spec) \ {"type"} \subseteq DOMAIN d) THEN BuildRaised("ActionError")
    ELSE Validated(cls,
                   [f \in DOMAIN d |-> IF f \in DOMAIN spec THEN spec[f]
                                       ELSE Tagged(f, d[f])],
                   Validate(cls, [f \in DOMAIN d |-> IF f \in DOMAIN spec THEN spec[f]
                                                     ELSE Tagged(f, d[f])]))

\* Lines 21-27 on the dict spec: the type tag and the registry lookup.
BuildFromDict(spec) ==
    IF "type" \notin DOMAIN spec THEN BuildRaised("ActionError")
    ELSE IF "str" \notin DOMAIN spec["type"] THEN BuildRaised("ActionError")
    ELSE IF spec["type"].str = "" THEN BuildRaised("ActionError")
    ELSE IF spec["type"].str \notin ACTION_REGISTRY THEN BuildRaised("ActionError")
    ELSE Construct(spec["type"].str, spec, ActionDefaults(spec["type"].str))

\* build_action(obj): [raised, cls, action]; raised is None or the name of
\* the exception, cls the registered class, action the instance's fields.
build_action(obj) ==
    IF "dict" \notin DOMAIN obj THEN BuildRaised("ActionError")
    ELSE BuildFromDict(obj.dict)

\* The outcome b of build_action with the instance's fields as plain values.
Untagged(b) ==
    IF b.raised # None THEN [ok |-> FALSE]
    ELSE [ok |-> TRUE, cls |-> b.cls,
          action |-> [f \in DOMAIN b.action |-> Val(b.action[f])]]

\* build_action on a plain spec: [ok |-> FALSE] when it raises.
BuildAction(spec) == Untagged(build_action(Py(spec)))

\* Finish.apply on context c: [raised, heap, obs]
FinishApply(h, c, act) ==
    IF act.answer_from # None /\ act.answer_from \notin DOMAIN MemoryOf(h, c)
    THEN [raised |-> TRUE, heap |-> h, obs |-> EmptyDict]
    ELSE LET ans == IF act.answer_from # None
                    THEN MemoryOf(h, c)[act.answer_from] ELSE act.literal
             h1 == SetAnswer(h, c, ans)
             h2 == SetDone(h1, c, TRUE)
             h3 == SetTerminal(h2, c, TRUE)
             h4 == SetFinalAnswer(h3, c, ans)
         IN [raised |-> FALSE, heap |-> h4,
             obs |-> [answer |-> ans, answer_from |-> act.answer_from,
                      literal_used |-> (act.answer_from = None)]]

\* GeneralRetrieval.apply on context c.  env.llm_query is the query the LLM
\* answers with (None: no client, or the call or its parse failed).
GeneralRetrievalApply(h, c, act, env) ==
    LET fromLlm == act.query = "" /\ act.use_llm
                   /\ "llm_client" \in DOMAIN MemoryOf(h, c) /\ env.llm_query # None
        q == IF fromLlm THEN env.llm_query ELSE act.query
    IN IF q = ""
       THEN [raised |-> TRUE, heap |-> h, obs |-> EmptyDict]
       ELSE IF "general_kb_provider" \notin DOMAIN MemoryOf(h, c)
            THEN [raised |-> FALSE,
                  heap |-> SetMemory(h, c, act.out_key, "stub"),
                  obs |-> [out_key |-> act.out_key, query |-> q, num_items |-> 0,
                           llm_used |-> fromLlm]]
            ELSE IF ~env.provider_has_search
                 THEN [raised |-> TRUE, heap |-> h, obs |-> EmptyDict]
                 ELSE IF ~env.provider_returns_dict
                      \* len(result.get("items", [])) raises after the memory write
                      THEN [raised |-> TRUE,
                            heap |-> SetMemory(h, c, act.out_key, "found"),
                            obs |-> EmptyDict]
                      ELSE [raised |-> FALSE,
                            heap |-> SetMemory(h, c, act.out_key, "found"),
                            obs |-> [out_key |-> act.out_key, query |-> q,
                                     num_items |-> 1, llm_used |-> fromLlm]]

ErrorObs ==
    [ok |-> FALSE, error_type |-> "ActionError", error |-> "msg",
     penalty |-> penalize_on_error]

\* Lines 24-32 with the outcome b of build_action.
ExecuteBuilt(h, c, b, env) ==
    IF ~b.ok THEN [heap |-> h, ctx |-> c, obs |-> ErrorObs]
    ELSE LET r == IF b.cls = "Finish"
                  THEN FinishApply(h, c, b.action)
                  ELSE GeneralRetrievalApply(h, c, b.action, env)
         IN IF r.raised
            THEN [heap |-> r.heap, ctx |-> c, obs |-> ErrorObs]
            ELSE [heap |-> r.heap, ctx |-> c, obs |-> r.obs]

\* TQAExecutionAgent.execute: [heap, ctx, obs]
Execute(h, c, spec, env) == ExecuteBuilt(h, c, BuildAction(spec), env)

TraceStep(action_spec, observation) ==
    [action_spec |-> action_spec, observation |-> observation,
     error |-> None, score |-> None]

(***************************************************************************)
(* Evaluation.                                                             *)
(***************************************************************************)
\* _is_terminal of the evaluation agent
IsTerminal(h, c) ==
    \/ h.ctxs[c].done
    \/ PathOf(h, c).terminal
    \/ "final_answer" \in DOMAIN MemoryOf(h, c)

\* The scores an evaluator answers with.
Scores == {<<-1, 1>>, <<1, 2>>}

\* The extra maps an evaluator answers with: none, or the evaluation
\* agent's {"terminal": ...}.
EvalExtras(h, c) == {EmptyDict, [terminal |-> IsTerminal(h, c)]}

NoEval == [some |-> FALSE]
EvalResult(score, extra) == [some |-> TRUE, score |-> score, extra |-> extra]

(***************************************************************************)
(* MCTSRunner._maybe_collect_ctx: [heap, candidates].                      *)
(***************************************************************************)
\* Lines 153-162 entered without the test of line 152.
CollectAlways(h, cands, c, er) ==
    [heap |-> SetFinalAnswer(SetTotalScore(h, c, IF er.some THEN er.score
                                                 ELSE PathOf(h, c).total_score),
                             c, h.ctxs[c].answer),
     candidates |-> Append(cands, h.ctxs[c].path)]

\* Lines 152-162: the collection itself, once the quota test has passed.
CollectIfTerminal(h, cands, c, er) ==
    IF h.ctxs[c].done \/ PathOf(h, c).terminal
    THEN LET p == h.ctxs[c].path
             h1 == IF er.some
                   THEN LET hs == SetTotalScore(h, c, er.score)
                        IN IF er.extra # EmptyDict
                           \* p.meta = {**p.meta, **er.extra}: a new dict
                           THEN [hs EXCEPT
                                   !.dicts = Append(@, DictMerge(MetaOf(h, c), er.extra)),
                                   !.paths[p].meta = Len(h.dicts) + 1]
                           ELSE hs
                   ELSE SetTotalScore(h, c,
                            IF PathOf(h, c).total_score = RZero
                            THEN RZero ELSE PathOf(h, c).total_score)
             h2 == SetFinalAnswer(h1, c, h.ctxs[c].answer)
         IN [heap |-> h2, candidates |-> Append(cands, p)]
    ELSE [heap |-> h, candidates |-> cands]

\* _maybe_collect_ctx without its first test on len(candidates).
MaybeCollectNoCap(h, cands, c, max_candidates, er) ==
    CollectIfTerminal(h, cands, c, er)

MaybeCollectCtx(h, cands, c, max_candidates, er) ==
    IF Len(cands) >= max_candidates THEN [heap |-> h, candidates |-> cands]
    ELSE CollectIfTerminal(h, cands, c, er)

(***************************************************************************)
(* candidates.sort(key=total_score, reverse=True): a stable sort.          *)
(***************************************************************************)
\* Insert path p behind every entry whose score is >= p's.
RECURSIVE InsertDesc(_, _, _)
InsertDesc(h, sorted, p) ==
    IF sorted = <<>> THEN <<p>>
    ELSE IF RLess(h.paths[Head(sorted)].total_score, h.paths[p].total_score)
         THEN <<p>> \o sorted
         ELSE <<Head(sorted)>> \o InsertDesc(h, Tail(sorted), p)

RECURSIVE SortFrom(_, _, _, _)
SortFrom(h, cands, i, acc) ==
    IF i > Len(cands) THEN acc
    ELSE SortFrom(h, cands, i + 1, InsertDesc(h, acc, cands[i]))

\* The list left as it was collected.
SortNone(h, cands) == cands

SortDesc(h, cands) == SortFrom(h, cands, 1, <<>>)

Min2(a, b) == IF a <= b THEN a ELSE b

\* candidates[:max_candidates], max_candidates >= 0
Prefix(s, n) == SubSeq(s, 1, Min2(n, Len(s)))

(***************************************************************************)
(* MCTSRunner.run, one action per iteration branch, and run_pipeline's     *)
(* test of the returned list.                                              *)
(***************************************************************************)
SpecFinish == [type |-> "Finish", literal |-> "42"]
SpecFinishFrom == [type |-> "Finish", answer_from |-> "result"]
SpecRetrieve == [type |-> "GeneralRetrieval", query |-> "q"]

\* Non-empty ranked lists a planner answers with.
Proposals ==
    {<<SpecFinish>>, <<SpecFinishFrom>>, <<SpecRetrieve>>,
     <<SpecRetrieve, SpecFinish>>, <<SpecFinish, SpecRetrieve>>}

\* What the world outside answers during one execute call.
RunEnvs == {[llm_query |-> None, provider_has_search |-> TRUE,
             provider_returns_dict |-> TRUE]}

\* No single call is under experiment.
NoCall == [fn |-> "none"]

NoStep == [op |-> "none", node |-> 0, child |-> 0, ctx |-> 0, reward |-> RZero,
           planner |-> 0, executor |-> 0, evaluator |-> 0, attached |-> <<>>,
           failed |-> FALSE]

\* build_root_context and MCTSNode(ctx=root_ctx)
RootHeap ==
    NewCtx(EmptyHeap, 1, 0, "question", [llm_client |-> "client"], <<>>, None,
           FALSE, RZero, EmptyDict, FALSE, None, 0)

Configs ==
    [num_iters : 1..MaxIters, max_candidates : 0..MaxCand, max_depth : 0..MaxDepth,
     min_score_to_expand : {<<1, 2>>}, exploration_c : {14}]

Init ==
    /\ heap = RootHeap
    /\ nodes = <<MCTSNode(1, 0, None)>>
    /\ candidates = <<>>
    /\ cfg \in Configs
    /\ it = 0
    /\ pc = "loop"
    /\ result = <<>>
    /\ last = NoStep
    /\ hist = <<[passes |-> 0, sum |-> RZero, created |-> RZero]>>
    /\ fk = [S |-> 0, F |-> 0, target |-> 0, ops |-> 0]
    /\ sel = 0
    /\ call = NoCall

Selected == Select(heap, nodes, cfg.exploration_c)

InLoop == pc = "loop" /\ it < cfg.num_iters

\* Line 43 without the should_stop test.
StopsAtDoneOnly(n) == heap.ctxs[nodes[n].ctx].done

StopsAt(n) ==
    \/ heap.ctxs[nodes[n].ctx].done
    \/ should_stop(cfg.max_depth, heap.ctxs[nodes[n].ctx].depth)

\* hist after a backpropagation of reward from node n
Recorded(hs, ns, n, reward) ==
    [m \in DOMAIN hs |->
        IF m \in Ancestors(ns, n)
        THEN [hs[m] EXCEPT !.passes = @ + 1, !.sum = RAdd(@, reward)]
        ELSE hs[m]]

\* Lines 55-57 with the metadata flag left out.
MarkDeadEndNoFlag(h, dead) == SetTerminal(SetDone(h, dead, TRUE), dead, TRUE)

\* Lines 55-57: dead.done, dead.path.terminal, dead.path.meta["dead_end"] = True
MarkDeadEnd(h, dead) ==
    SetMeta(SetTerminal(SetDone(h, dead, TRUE), dead, TRUE), dead, "dead_end", TRUE)

\* The terminal branch as a step that does not use up an iteration.
IterTerminalNoAdvance ==
    /\ InLoop
    /\ StopsAt(Selected)
    /\ heap' = MaybeCollectCtx(heap, candidates, nodes[Selected].ctx,
                               cfg.max_candidates, NoEval).heap
    /\ candidates' = MaybeCollectCtx(heap, candidates, nodes[Selected].ctx,
                                     cfg.max_candidates, NoEval).candidates
    /\ last' = [NoStep EXCEPT !.op = "terminal", !.node = Selected,
                              !.ctx = nodes[Selected].ctx]
    /\ UNCHANGED <<nodes, cfg, it, pc, result, hist, fk, sel, call>>

\* Lines 43-47: the selected node is done or at the depth limit.
IterTerminal ==
    /\ InLoop
    /\ \E n \in {Selected} :
          /\ StopsAt(n)
          /\ \E col \in {MaybeCollectCtx(heap, candidates, nodes[n].ctx,
                                         cfg.max_candidates, NoEval)} :
                /\ heap' = col.heap
                /\ candidates' = col.candidates
          /\ last' = [NoStep EXCEPT !.op = "terminal", !.node = n, !.ctx = nodes[n].ctx]
    /\ it' = it + 1
    /\ UNCHANGED <<nodes, cfg, pc, result, hist, fk, sel, call>>

\* Lines 50-61: the planner proposes nothing.
IterDeadEnd ==
    /\ InLoop
    /\ LET n == Selected
           h1 == Fork(heap, nodes[n].ctx)
           dead == NewestCtx(h1)
           h4 == MarkDeadEnd(h1, dead)
       IN /\ ~StopsAt(n)
          /\ \E score \in Scores, extra \in EvalExtras(h4, dead) :
                LET col == MaybeCollectCtx(h4, candidates, dead, cfg.max_candidates,
                                           EvalResult(score, extra))
                IN /\ nodes' = Backprop(nodes, n, score)
                   /\ hist' = Recorded(hist, nodes, n, score)
                   \* a fork that was not collected is unreferenced and freed
                   /\ heap' = IF Len(col.candidates) > Len(candidates)
                              THEN col.heap ELSE heap
                   /\ candidates' = col.candidates
                   /\ last' = [op |-> "dead_end", node |-> n, child |-> 0,
                               ctx |-> IF Len(col.candidates) > Len(candidates)
                                       THEN dead ELSE 0,
                               reward |-> score, planner |-> 1, executor |-> 0,
                               evaluator |-> 1, attached |-> <<>>, failed |-> FALSE]
    /\ it' = it + 1
    /\ UNCHANGED <<cfg, pc, result, fk, sel, call>>

\* planner.propose raising treated as an iteration without effect.
IterPlannerRaiseSwallowed ==
    /\ InLoop
    /\ ~StopsAt(Selected)
    /\ last' = [NoStep EXCEPT !.op = "planner_raised", !.node = Selected, !.planner = 1]
    /\ it' = it + 1
    /\ UNCHANGED <<heap, nodes, candidates, cfg, pc, result, hist, fk, sel, call>>

\* Line 50: planner.propose raises; run has no try, the exception leaves it.
IterPlannerRaise ==
    /\ InLoop
    /\ \E n \in {Selected} :
          /\ ~StopsAt(n)
          /\ last' = [NoStep EXCEPT !.op = "planner_raised", !.node = n, !.planner = 1]
    /\ it' = it + 1
    /\ pc' = "propagated"
    /\ UNCHANGED <<heap, nodes, candidates, cfg, result, hist, fk, sel, call>>

\* Lines 72-98: the executed fork ex, picked as position a_idx with spec
\* a_spec below node n, becomes a child, is evaluated with score, attached,
\* backpropagated and collected.
Expanded(n, a_idx, a_spec, ex, score) ==
    LET child_ctx == ex.ctx
        h2 == AppendStep(ex.heap, child_ctx, TraceStep(a_spec, ex.obs))
        h3 == SetDepth(h2, child_ctx, heap.ctxs[nodes[n].ctx].depth + 1)
        h4 == IF ~should_expand(cfg.min_score_to_expand, score)
              THEN SetMeta(SetDone(h3, child_ctx, TRUE), child_ctx, "pruned", TRUE)
              ELSE h3
        h5 == IF h4.ctxs[child_ctx].done
              THEN SetFinalAnswer(SetTerminal(h4, child_ctx, TRUE), child_ctx,
                                  h4.ctxs[child_ctx].answer)
              ELSE h4
        child == Len(nodes) + 1
        ns1 == Append([nodes EXCEPT ![n].children = ChildPut(@, a_idx, child)],
                      MCTSNode(child_ctx, n, a_idx))
        hs1 == Append(hist, [passes |-> 0, sum |-> RZero, created |-> score])
    IN \E extra \in EvalExtras(h3, child_ctx) :
         LET col == MaybeCollectCtx(h5, candidates, child_ctx,
                                    cfg.max_candidates, EvalResult(score, extra))
         IN /\ nodes' = Backprop(ns1, child, score)
            /\ hist' = Recorded(hs1, ns1, child, score)
            /\ heap' = col.heap
            /\ candidates' = col.candidates
            /\ pc' = IF Len(col.candidates) >= cfg.max_candidates
                     THEN "break" ELSE "loop"
            /\ last' = [op |-> "expand", node |-> n, child |-> child,
                        ctx |-> child_ctx, reward |-> score, planner |-> 1,
                        executor |-> 1, evaluator |-> 1,
                        \* the child's state at line 89
                        attached |-> View(h5, child_ctx),
                        \* the executor's observation reports a failure
                        failed |-> "ok" \in DOMAIN ex.obs]

\* The fork h1 of the selected node's state is handed to the executor with
\* the picked spec.
ExecutePicked(n, pick, h1, env, score) ==
    Expanded(n, pick[1], pick[2], Execute(h1, NewestCtx(h1), pick[2], env), score)

\* Lines 50, 63-98: the planner proposes action_specs, one is executed.
IterExpand ==
    /\ InLoop
    /\ ~StopsAt(Selected)
    /\ \E action_specs \in Proposals, env \in RunEnvs, score \in Scores :
          ExecutePicked(Selected, PickUntriedOrBest(nodes[Selected].children, action_specs),
                        Fork(heap, nodes[Selected].ctx), env, score)
    /\ it' = it + 1
    /\ UNCHANGED <<cfg, result, fk, sel, call>>

\* Lines 100-102: the loop is left, by exhaustion or by break.
Return ==
    /\ pc = "break" \/ (pc = "loop" /\ it >= cfg.num_iters)
    /\ candidates' = SortDesc(heap, candidates)
    /\ result' = Prefix(candidates', cfg.max_candidates)
    /\ pc' = "returned"
    /\ UNCHANGED <<heap, nodes, cfg, it, last, hist, fk, sel, call>>

\* main.py lines 216-217: run_pipeline refuses an empty list.
PipelineRaise ==
    /\ pc = "returned"
    /\ result = <<>>
    /\ pc' = "raised"
    /\ UNCHANGED <<heap, nodes, candidates, cfg, it, result, last, hist, fk, sel, call>>

\* The decision step entered without the test of lines 216-217.
PipelineDecideUnchecked ==
    /\ pc = "returned"
    /\ pc' = "answered"
    /\ UNCHANGED <<heap, nodes, candidates, cfg, it, result, last, hist, fk, sel, call>>

\* main.py lines 219-233: the list goes to the decision step.
PipelineDecide ==
    /\ pc = "returned"
    /\ result # <<>>
    /\ pc' = "answered"
    /\ UNCHANGED <<heap, nodes, candidates, cfg, it, result, last, hist, fk, sel, call>>

Next ==
    \/ IterPlannerRaise
    \/ IterTerminal
    \/ IterDeadEnd
    \/ IterExpand
    \/ Return
    \/ PipelineRaise
    \/ PipelineDecide

Spec == Init /\ [][Next]_vars

\* The run as a sequential program: it does not stop while a step is left.
SpecLive == Init /\ [][Next]_vars /\ WF_vars(Next)

(***************************************************************************)
(* ReasoningContext.fork on its own: a context S, its fork F, and writes   *)
(* through either reference.                                               *)
(***************************************************************************)
MemoryKeys == {"llm_client", "result"}
MetaKeys == {"pruned", "dead_end"}
Values == {"client", "42"}
SomeStep == TraceStep(SpecRetrieve, [out_key |-> "general_knowledge"])

IdleConfig ==
    [num_iters |-> 0, max_candidates |-> 0, max_depth |-> 0,
     min_score_to_expand |-> RZero, exploration_c |-> 14]

ForkInit ==
    /\ \E memory \in {EmptyDict, [llm_client |-> "client"]},
          steps \in {<<>>, <<SomeStep>>},
          done \in BOOLEAN :
          heap = NewCtx(EmptyHeap, 1, 0, "question", memory, steps, None, done,
                        RZero, EmptyDict, done, None, Len(steps))
    /\ fk = [S |-> 1, F |-> 0, target |-> 0, ops |-> 0]
    /\ pc = "fork"
    /\ nodes = <<>>
    /\ candidates = <<>>
    /\ cfg = IdleConfig
    /\ it = 0
    /\ result = <<>>
    /\ last = NoStep
    /\ hist = <<>>
    /\ sel = 0
    /\ call = NoCall

ForkFrame == UNCHANGED <<nodes, candidates, cfg, it, pc, result, last, hist, sel, call>>

Forked == {c \in {fk.S, fk.F} : c # 0}

Wrote(c) == fk' = [fk EXCEPT !.target = c, !.ops = @ + 1]

\* F = S.fork()
DoFork ==
    /\ pc = "fork"
    /\ fk.F = 0
    /\ heap' = Fork(heap, fk.S)
    /\ fk' = [fk EXCEPT !.F = NewestCtx(heap'), !.target = 0]
    /\ ForkFrame

\* ctx.memory[k] = v
WriteMemory ==
    /\ pc = "fork" /\ fk.ops < MaxForkOps
    /\ \E c \in Forked, k \in MemoryKeys, v \in Values :
          heap' = SetMemory(heap, c, k, v) /\ Wrote(c)
    /\ ForkFrame

\* del ctx.memory[k]
RemoveMemory ==
    /\ pc = "fork" /\ fk.ops < MaxForkOps
    /\ \E c \in Forked : \E k \in DOMAIN MemoryOf(heap, c) :
          heap' = DelMemory(heap, c, k) /\ Wrote(c)
    /\ ForkFrame

\* ctx.path.steps.append(step)
WriteStep ==
    /\ pc = "fork" /\ fk.ops < MaxForkOps
    /\ \E c \in Forked : heap' = AppendStep(heap, c, SomeStep) /\ Wrote(c)
    /\ ForkFrame

\* ctx.path.meta[k] = True
WriteMeta ==
    /\ pc = "fork" /\ fk.ops < MaxForkOps
    /\ \E c \in Forked, k \in MetaKeys : heap' = SetMeta(heap, c, k, TRUE) /\ Wrote(c)
    /\ ForkFrame

\* ctx.done, ctx.answer, ctx.depth, ctx.path.terminal, ctx.path.total_score = ...
WriteScalar ==
    /\ pc = "fork" /\ fk.ops < MaxForkOps
    /\ \E c \in Forked :
          /\ \/ heap' = SetDone(heap, c, ~heap.ctxs[c].done)
             \/ heap' = SetAnswer(heap, c, "42")
             \/ heap' = SetDepth(heap, c, heap.ctxs[c].depth + 1)
             \/ heap' = SetTerminal(heap, c, ~PathOf(heap, c).terminal)
             \/ heap' = SetTotalScore(heap, c, RAdd(PathOf(heap, c).total_score, <<1, 2>>))
          /\ Wrote(c)
    /\ ForkFrame

ForkNext ==
    \/ DoFork
    \/ WriteMemory
    \/ RemoveMemory
    \/ WriteStep
    \/ WriteMeta
    \/ WriteScalar

SpecFork == ForkInit /\ [][ForkNext]_vars

(***************************************************************************)
(* _select on its own: a root with children of arbitrary statistics.       *)
(***************************************************************************)
\* (N, Q) of a child: unvisited, or visited with some mean
ChildStats ==
    {<<0, RZero>>} \cup ({1, 5} \X {<<-1, 1>>, <<2, 5>>, <<1, 1>>})

RECURSIVE HeapOfContexts(_)
HeapOfContexts(n) ==
    IF n = 0 THEN EmptyHeap
    ELSE NewCtx(HeapOfContexts(n - 1), 1, 0, "question", EmptyDict, <<>>, None,
                FALSE, RZero, EmptyDict, FALSE, None, IF n = 1 THEN 0 ELSE 1)

RECURSIVE SumN(_, _)
SumN(stats, i) == IF i = 0 THEN 0 ELSE stats[i][1] + SumN(stats, i - 1)

\* A root whose children, in insertion order, carry the given statistics.
TreeOf(stats) ==
    <<[MCTSNode(1, 0, None) EXCEPT
          !.children = [i \in 1..Len(stats) |-> <<i - 1, i + 1>>],
          !.N = SumN(stats, Len(stats))]>>
    \o [i \in 1..Len(stats) |->
          [MCTSNode(i + 1, 1, i - 1) EXCEPT !.N = stats[i][1], !.Q = stats[i][2]]]

SelectInit ==
    /\ \E k \in 1..MaxChildren : \E stats \in [1..k -> ChildStats] :
          /\ nodes = TreeOf(stats)
          /\ heap = HeapOfContexts(k + 1)
    /\ \E c \in {0, 14, 100} : cfg = [IdleConfig EXCEPT !.exploration_c = c]
    /\ pc = "select"
    /\ sel = 0
    /\ candidates = <<>>
    /\ it = 0
    /\ result = <<>>
    /\ last = NoStep
    /\ hist = <<>>
    /\ fk = [S |-> 0, F |-> 0, target |-> 0, ops |-> 0]
    /\ call = NoCall

\* node = self._select(root)
DoSelect ==
    /\ pc = "select"
    /\ sel' = Select(heap, nodes, cfg.exploration_c)
    /\ pc' = "selected"
    /\ UNCHANGED <<heap, nodes, candidates, cfg, it, result, last, hist, fk, call>>

SelectNext == DoSelect

SpecSelect == SelectInit /\ [][SelectNext]_vars

(***************************************************************************)
(* TQAExecutionAgent.execute on its own: one call on a fresh context.      *)
(***************************************************************************)
ExecMemories ==
    LET full == [llm_client |-> "client", general_kb_provider |-> "provider",
                 result |-> "42"]
    IN {[k \in K |-> full[k]] : K \in SUBSET DOMAIN full}

ExecSpecs ==
    {SpecFinish, SpecFinishFrom, SpecRetrieve,
     [type |-> "GeneralRetrieval"],
     [type |-> "GeneralRetrieval", query |-> "q", topk |-> 0],
     [type |-> "Finish", zz |-> "1"],
     [type |-> "Nope"]}

ExecEnvs ==
    [llm_query : {None, "", "q2"}, provider_has_search : BOOLEAN,
     provider_returns_dict : BOOLEAN]

ExecInit ==
    /\ \E memory \in ExecMemories :
          heap = NewCtx(EmptyHeap, 1, 0, "question", memory, <<>>, None, FALSE,
                        RZero, EmptyDict, FALSE, None, 0)
    /\ \E spec \in ExecSpecs, env \in ExecEnvs :
          call = [fn |-> "execute", spec |-> spec, env |-> env,
                  before |-> View(heap, 1), ctx |-> 0, obs |-> EmptyDict]
    /\ pc = "execute"
    /\ nodes = <<>>
    /\ candidates = <<>>
    /\ cfg = IdleConfig
    /\ it = 0
    /\ result = <<>>
    /\ last = NoStep
    /\ hist = <<>>
    /\ fk = [S |-> 0, F |-> 0, target |-> 0, ops |-> 0]
    /\ sel = 0

\* new_ctx, obs = executor.execute(ctx, action_spec)
DoExecute ==
    /\ pc = "execute"
    /\ LET ex == Execute(heap, 1, call.spec, call.env)
       IN /\ heap' = ex.heap
          /\ call' = [call EXCEPT !.ctx = ex.ctx, !.obs = ex.obs]
    /\ pc' = "executed"
    /\ UNCHANGED <<nodes, candidates, cfg, it, result, last, hist, fk, sel>>

ExecNext == DoExecute

SpecExec == ExecInit /\ [][ExecNext]_vars

(***************************************************************************)
(* build_action on its own: one call on a Python object.                   *)
(***************************************************************************)
Absent == [absent |-> TRUE]

\* The fields a drawn spec may carry, each absent or with one of its values.
BuildChoices ==
    [type : {Absent, PyStr(""), PyInt(3), PyNone, PyStr("Nope"), PyStr("Finish"),
             PyStr("GeneralRetrieval")},
     literal : {Absent, PyStr("42")},
     topk : {Absent, PyInt(0), PyInt(3), PyStr("a")},
     zz : {Absent, PyInt(1)},
     TYPE : {Absent, PyStr("x")}]

\* The dict holding the fields that are not absent.
DictOf(ch) == PyDict([f \in {g \in DOMAIN ch : ch[g] # Absent} |-> ch[f]])

BuildInputs ==
    {PyNone, PyList(<<>>), PyStr("Finish")} \cup {DictOf(ch) : ch \in BuildChoices}

BuildInit ==
    /\ \E obj \in BuildInputs :
          call = [fn |-> "build_action", spec |-> obj,
                  out |-> [raised |-> None, cls |-> None, action |-> EmptyDict]]
    /\ pc = "build"
    /\ heap = EmptyHeap
    /\ nodes = <<>>
    /\ candidates = <<>>
    /\ cfg = IdleConfig
    /\ it = 0
    /\ result = <<>>
    /\ last = NoStep
    /\ hist = <<>>
    /\ fk = [S |-> 0, F |-> 0, target |-> 0, ops |-> 0]
    /\ sel = 0

\* action = build_action(spec)
DoBuild ==
    /\ pc = "build"
    /\ call' = [call EXCEPT !.out = build_action(call.spec)]
    /\ pc' = "built"
    /\ UNCHANGED <<heap, nodes, candidates, cfg, it, result, last, hist, fk, sel>>

BuildNext == DoBuild

SpecBuild == BuildInit /\ [][BuildNext]_vars

(***************************************************************************)
(* _maybe_collect_ctx on its own: one call on a context with a path that   *)
(* already carries values, with or without an evaluation result.           *)
(***************************************************************************)
CollectMetas == {EmptyDict, [pruned |-> TRUE], [dead_end |-> TRUE]}

CollectEvals ==
    {NoEval} \cup
    {EvalResult(score, extra) :
        score \in Scores,
        extra \in {EmptyDict, [terminal |-> TRUE], [pruned |-> FALSE],
                   [dead_end |-> FALSE, terminal |-> TRUE]}}

CollectInit ==
    /\ \E meta \in CollectMetas, done \in BOOLEAN, terminal \in BOOLEAN,
          total_score \in {RZero, <<3, 4>>}, answer \in {None, "42"} :
          heap = NewCtx(RootHeap, 1, 0, "question", EmptyDict, <<>>, None, terminal,
                        total_score, meta, done, answer, 1)
    /\ candidates \in {<<>>, <<1>>}
    /\ \E mc \in 0..MaxCand : cfg = [IdleConfig EXCEPT !.max_candidates = mc]
    /\ \E er \in CollectEvals :
          call = [fn |-> "_maybe_collect_ctx", ctx |-> 2, er |-> er,
                  before |-> View(heap, 2), candidates |-> candidates]
    /\ pc = "collect"
    /\ nodes = <<>>
    /\ it = 0
    /\ result = <<>>
    /\ last = NoStep
    /\ hist = <<>>
    /\ fk = [S |-> 0, F |-> 0, target |-> 0, ops |-> 0]
    /\ sel = 0

\* self._maybe_collect_ctx(ctx, candidates, max_candidates, er)
DoCollect ==
    /\ pc = "collect"
    /\ LET col == MaybeCollectCtx(heap, candidates, call.ctx, cfg.max_candidates, call.er)
       IN /\ heap' = col.heap
          /\ candidates' = col.candidates
    /\ pc' = "collected"
    /\ UNCHANGED <<nodes, cfg, it, result, last, hist, fk, sel, call>>

CollectNext == DoCollect

SpecCollect == CollectInit /\ [][CollectNext]_vars

(***************************************************************************)
(* _pick_untried_or_best on its own: a children map with arbitrary keys    *)
(* and a non-empty proposal list.                                          *)
(***************************************************************************)
RECURSIVE ChildrenOf(_, _)
\* A children map with the keys of K below n, entered in ascending order;
\* the child under key k is node k + 2.
ChildrenOf(K, n) ==
    IF n = 0 THEN <<>>
    ELSE IF (n - 1) \in K THEN Append(ChildrenOf(K, n - 1), <<n - 1, n + 1>>)
         ELSE ChildrenOf(K, n - 1)

ProposalLists ==
    UNION {[1..len -> {SpecFinish, SpecRetrieve}] : len \in 1..MaxProposals}

PickInit ==
    /\ \E K \in SUBSET (0..MaxProposals), action_specs \in ProposalLists :
          call = [fn |-> "_pick_untried_or_best",
                  children |-> ChildrenOf(K, MaxProposals + 1),
                  action_specs |-> action_specs, out |-> <<>>]
    /\ pc = "pick"
    /\ heap = EmptyHeap
    /\ nodes = <<>>
    /\ candidates = <<>>
    /\ cfg = IdleConfig
    /\ it = 0
    /\ result = <<>>
    /\ last = NoStep
    /\ hist = <<>>
    /\ fk = [S |-> 0, F |-> 0, target |-> 0, ops |-> 0]
    /\ sel = 0

\* a_idx, a_spec = self._pick_untried_or_best(node, action_specs)
DoPick ==
    /\ pc = "pick"
    /\ call' = [call EXCEPT !.out = PickUntriedOrBest(call.children, call.action_specs)]
    /\ pc' = "picked"
    /\ UNCHANGED <<heap, nodes, candidates, cfg, it, result, last, hist, fk, sel>>

PickNext == DoPick

SpecPick == PickInit /\ [][PickNext]_vars

(***************************************************************************)
(* TableContext.resolve_col on its own.  A string is the sequence of its   *)
(* characters; header_index is a dict in insertion order, the sequence of  *)
(* its <<key, index>> items.                                               *)
(***************************************************************************)
MaxHeaders == 2

Whitespace == {" ", "\t"}

\* str.lower on one character
Lower(ch) == IF ch = "A" THEN "a" ELSE IF ch = "B" THEN "b" ELSE ch

RECURSIVE LStrip(_)
LStrip(s) == IF s # <<>> /\ Head(s) \in Whitespace THEN LStrip(Tail(s)) ELSE s

RECURSIVE RStrip(_)
RStrip(s) ==
    IF s # <<>> /\ s[Len(s)] \in Whitespace THEN RStrip(SubSeq(s, 1, Len(s) - 1)) ELSE s

\* re.sub(r"\s+", " ", s): every run of whitespace becomes one blank
RECURSIVE Collapse(_)
Collapse(s) ==
    IF s = <<>> THEN <<>>
    ELSE IF Head(s) \in Whitespace
         THEN <<" ">> \o Collapse(LStrip(s))
         ELSE <<Head(s)>> \o Collapse(Tail(s))

\* _norm(s)
Norm(s) == LET t == Collapse(RStrip(LStrip(s))) IN [i \in DOMAIN t |-> Lower(t[i])]

\* Python's  a in b  on strings
Contains(a, b) == \E i \in 0..(Len(b) - Len(a)) : SubSeq(b, i + 1, i + Len(a)) = a

DictKeys(items) == {items[i][1] : i \in DOMAIN items}

DictGet(items, k) ==
    LET i == CHOOSE j \in DOMAIN items : items[j][1] = k IN items[i][2]

\* d[k] = v: an existing key keeps its place
DictPut(items, k, v) ==
    IF k \in DictKeys(items)
    THEN [i \in DOMAIN items |-> IF items[i][1] = k THEN <<k, v>> ELSE items[i]]
    ELSE Append(items, <<k, v>>)

\* The comprehension of __post_init__ with the first of two equal keys kept.
RECURSIVE HeaderIndexFirstWins(_, _)
HeaderIndexFirstWins(headers, n) ==
    IF n = 0 THEN <<>>
    ELSE IF Norm(headers[n]) \in DictKeys(HeaderIndexFirstWins(headers, n - 1))
         THEN HeaderIndexFirstWins(headers, n - 1)
         ELSE Append(HeaderIndexFirstWins(headers, n - 1), <<Norm(headers[n]), n - 1>>)

\* {_norm(h): i for i, h in enumerate(self.headers)}, the first n headers
RECURSIVE HeaderIndex(_, _)
HeaderIndex(headers, n) ==
    IF n = 0 THEN <<>>
    ELSE DictPut(HeaderIndex(headers, n - 1), Norm(headers[n]), n - 1)

\* [(k, i) for k, i in header_index.items() if key in k or k in key]
SoftCands(items, key) ==
    SelectSeq(items, LAMBDA x : Contains(key, x[1]) \/ Contains(x[1], key))

\* cands.sort(key=len of k) is stable: cands[0] is the first shortest item
FirstShortest(cands) ==
    cands[CHOOSE i \in DOMAIN cands :
            /\ \A j \in DOMAIN cands : Len(cands[i][1]) <= Len(cands[j][1])
            /\ \A j \in 1..(i - 1) : Len(cands[j][1]) > Len(cands[i][1])]

\* resolve_col: [raised, value]
ResolveCol(items, name) ==
    IF Norm(name) \in DictKeys(items)
    THEN [raised |-> "none", value |-> DictGet(items, Norm(name))]
    ELSE IF SoftCands(items, Norm(name)) = <<>>
         THEN [raised |-> "KeyError", value |-> 0]
         ELSE [raised |-> "none", value |-> FirstShortest(SoftCands(items, Norm(name)))[2]]

\* Header and column names as they are typed.
RawNames ==
    {<<>>, <<"a">>, <<"A", "b">>, <<" ", "a", "b", " ">>, <<"a", "\t", " ", "b">>,
     <<"a", " ", "B">>, <<"b">>, <<"b", "a">>, <<"c">>}

HeaderLists == UNION {[1..len -> RawNames] : len \in 0..MaxHeaders}

ResolveInit ==
    /\ \E headers \in HeaderLists, name \in RawNames :
          call = [fn |-> "resolve_col", headers |-> headers, header_index |-> <<>>,
                  name |-> name, out |-> [raised |-> "none", value |-> 0]]
    /\ pc = "table"
    /\ heap = EmptyHeap
    /\ nodes = <<>>
    /\ candidates = <<>>
    /\ cfg = IdleConfig
    /\ it = 0
    /\ result = <<>>
    /\ last = NoStep
    /\ hist = <<>>
    /\ fk = [S |-> 0, F |-> 0, target |-> 0, ops |-> 0]
    /\ sel = 0

ResolveFrame == UNCHANGED <<heap, nodes, candidates, cfg, it, result, last, hist, fk, sel>>

\* TableContext(headers, rows): __post_init__ builds header_index
PostInit ==
    /\ pc = "table"
    /\ call' = [call EXCEPT !.header_index = HeaderIndex(call.headers, Len(call.headers))]
    /\ pc' = "resolve"
    /\ ResolveFrame

\* table.resolve_col(name)
DoResolve ==
    /\ pc = "resolve"
    /\ call' = [call EXCEPT !.out = ResolveCol(call.header_index, call.name)]
    /\ pc' = "resolved"
    /\ ResolveFrame

ResolveNext == PostInit \/ DoResolve

SpecResolve == ResolveInit /\ [][ResolveNext]_vars

(***************************************************************************)
(* json_chat_with_retry on its own: one action per attempt, with what      *)
(* chat_fn does as the input.  A text is the sequence of its characters.   *)
(***************************************************************************)
MaxRetries == 2

\* llm/errors.py: the direct base class of each exception class.
BaseOf(cls) ==
    IF cls \in {"LLMRateLimitError", "LLMTimeoutError"} THEN "LLMRequestError"
    ELSE IF cls \in {"LLMConfigError", "LLMRequestError", "LLMParseError"} THEN "LLMError"
    ELSE "Exception"

RECURSIVE IsInstance(_, _)
IsInstance(cls, of) ==
    \/ cls = of
    \/ cls # "Exception" /\ IsInstance(BaseOf(cls), of)

\* An except clause that catches every exception.
CaughtAny(cls) == TRUE

\* except (LLMParseError, LLMRequestError)
Caught(cls) == IsInstance(cls, "LLMParseError") \/ IsInstance(cls, "LLMRequestError")

\* The positions of character ch in text behind position p.
Behind(text, p, ch) == {q \in (p + 1)..Len(text) : text[q] = ch}

Closer(ch) == IF ch = "{" THEN "}" ELSE "]"

\* Where _JSON_RE can start a match: an opening character with its closing
\* character somewhere behind it.
Starts(text) ==
    {p \in DOMAIN text : text[p] \in {"{", "["} /\ Behind(text, p, Closer(text[p])) # {}}

MinOf(S) == CHOOSE x \in S : \A y \in S : x <= y
MaxOf(S) == CHOOSE x \in S : \A y \in S : y <= x

\* extract_json_block: [raised, block]; search takes the leftmost start and
\* the greedy .* runs to the last closing character.
extract_json_block(text) ==
    IF text = <<>> THEN [raised |-> TRUE, block |-> <<>>]
    ELSE IF Starts(text) = {} THEN [raised |-> TRUE, block |-> <<>>]
    ELSE [raised |-> FALSE,
          block |-> SubSeq(text, MinOf(Starts(text)),
                           MaxOf(Behind(text, MinOf(Starts(text)),
                                        Closer(text[MinOf(Starts(text))]))))]

\* The JSON texts over the characters { } [ ] 1: the empty object, and
\* arrays of no element or of one element (there is no comma).
RECURSIVE IsJson(_)
IsJson(b) ==
    \/ b = <<"{", "}">>
    \/ b = <<"[", "]">>
    \/ /\ Len(b) >= 3
       /\ b[1] = "["
       /\ b[Len(b)] = "]"
       /\ \/ \A i \in 2..(Len(b) - 1) : b[i] = "1"
          \/ IsJson(SubSeq(b, 2, Len(b) - 1))

\* parse_json: [raised, value]; the value json.loads answers is written as
\* its JSON text.
parse_json(text) ==
    IF extract_json_block(text).raised THEN [raised |-> TRUE, value |-> <<>>]
    ELSE IF IsJson(extract_json_block(text).block)
         THEN [raised |-> FALSE, value |-> extract_json_block(text).block]
         ELSE [raised |-> TRUE, value |-> <<>>]

\* What chat_fn returns.
ChatOutputs ==
    {<<>>, <<"x">>, <<"{", "}">>, <<"x", "[", "1", "]", "x">>, <<"{", "x", "}">>,
     <<"}", "{">>, <<"{", "}", "x", "}">>, <<"[", "[", "]", "]">>}

\* What chat_fn raises.
ChatExceptions ==
    {"LLMRequestError", "LLMRateLimitError", "LLMTimeoutError", "LLMParseError",
     "LLMConfigError", "RuntimeError"}

Reminder == "IMPORTANT: Output MUST be STRICT JSON only. No explanations."

\* system_prompt + "\n\n" + reminder
Strengthened(system_prompt) == <<system_prompt[1], Reminder>>

RetryInit ==
    /\ \E max_retries \in (-1)..MaxRetries :
          call = [fn |-> "json_chat_with_retry", max_retries |-> max_retries,
                  system_prompt |-> <<"system">>, sys |-> <<"system">>, i |-> 0,
                  last_err |-> "None", prompts |-> <<>>, outcomes |-> <<>>,
                  value |-> <<>>, raised |-> "None"]
    /\ pc = "attempt"
    /\ heap = EmptyHeap
    /\ nodes = <<>>
    /\ candidates = <<>>
    /\ cfg = IdleConfig
    /\ it = 0
    /\ result = <<>>
    /\ last = NoStep
    /\ hist = <<>>
    /\ fk = [S |-> 0, F |-> 0, target |-> 0, ops |-> 0]
    /\ sel = 0

RetryFrame == UNCHANGED <<heap, nodes, candidates, cfg, it, result, last, hist, fk, sel>>

InRange == pc = "attempt" /\ call.i < call.max_retries + 1

\* Lines 52-58 and 60: exception cls reached the except clause of attempt i.
Handled(c, cls) ==
    IF c.i = c.max_retries
    THEN [c EXCEPT !.last_err = cls, !.raised = "LLMParseError"]
    ELSE [c EXCEPT !.last_err = cls, !.sys = Strengthened(c.system_prompt), !.i = @ + 1]

\* The call of line 50 is made with the prompt sys; outcomes keeps what each
\* call ended in: the exception class chat_fn raised, or whether the text it
\* returned parsed.
Called(c, outcome) ==
    [c EXCEPT !.prompts = Append(@, c.sys), !.outcomes = Append(@, outcome)]

\* Lines 50-51: chat_fn returns out.
ChatReturns ==
    /\ InRange
    /\ \E out \in ChatOutputs :
          IF parse_json(out).raised
          THEN /\ call' = Handled(Called(call, "unparsed"), "LLMParseError")
               /\ pc' = IF call.i = call.max_retries THEN "raised" ELSE "attempt"
          ELSE /\ call' = [Called(call, "parsed") EXCEPT !.value = parse_json(out).value]
               /\ pc' = "returned"
    /\ RetryFrame

\* Line 50: chat_fn raises cls.
ChatRaises ==
    /\ InRange
    /\ \E cls \in ChatExceptions :
          IF Caught(cls)
          THEN /\ call' = Handled(Called(call, cls), cls)
               /\ pc' = IF call.i = call.max_retries THEN "raised" ELSE "attempt"
          ELSE /\ call' = [Called(call, cls) EXCEPT !.raised = cls]
               /\ pc' = "raised"
    /\ RetryFrame

\* Lines 48 and 60: range(max_retries + 1) is empty.
NoAttempt ==
    /\ pc = "attempt"
    /\ call.max_retries + 1 <= 0
    /\ call' = [call EXCEPT !.raised = "LLMParseError"]
    /\ pc' = "raised"
    /\ RetryFrame

RetryNext == ChatReturns \/ ChatRaises \/ NoAttempt

SpecRetry == RetryInit /\ [][RetryNext]_vars

(***************************************************************************)
(* Properties of the run.                                                  *)
(***************************************************************************)
Finished == pc \in {"returned", "answered", "raised"}

ScoreOfPath(p) == heap.paths[p].total_score

CtxOfNode(n) == heap.ctxs[nodes[n].ctx]

\* C1: the candidate list never holds more than max_candidates entries, and
\* the list run returns has at most max_candidates entries.
C1_CandidateCap ==
    /\ Len(candidates) <= cfg.max_candidates
    /\ Finished => Len(result) <= cfg.max_candidates

\* A full list was offered one more terminal leaf and refused it.
C1_Witness ==
    /\ pc = "loop"
    /\ last.op = "terminal"
    /\ CtxOfNode(last.node).done
    /\ cfg.max_candidates = 2
    /\ Len(candidates) = 2
    /\ it = 3

\* C2: once the max_candidates-th candidate has been collected, no later step
\* of the loop calls the planner, the executor or the evaluator or changes
\* any node's N, Q or children.
C2_StopsAtQuota ==
    [][(/\ pc = "loop"
        /\ cfg.max_candidates >= 1
        /\ Len(candidates) >= cfg.max_candidates
        /\ it' # it)
       => /\ last'.planner = 0 /\ last'.executor = 0 /\ last'.evaluator = 0
          /\ nodes' = nodes]_vars

FinishOnlyRun ==
    /\ Len(nodes) = 2
    /\ hist[1].passes = 1
    /\ Len(StepsOf(heap, nodes[2].ctx)) = 1
    /\ StepsOf(heap, nodes[2].ctx)[1].action_spec = SpecFinish

NoDuplicates(s) == \A i, j \in DOMAIN s : i # j => s[i] # s[j]

\* C4: with a planner that always proposes Finish, run returns exactly one
\* candidate and no path twice.
C4_FinishOnlyYieldsOne ==
    (pc = "returned" /\ FinishOnlyRun /\ cfg.max_candidates >= 1)
        => Len(result) = 1 /\ NoDuplicates(result)

\* C5: the returned list is in non-increasing order of total_score.
C5_SortedDesc ==
    Finished => \A i \in 1..(Len(result) - 1) :
                   ~RLess(ScoreOfPath(result[i]), ScoreOfPath(result[i + 1]))

\* Two candidates were returned in the reverse of the order of collection:
\* the path created later has the higher score.
C5_Witness ==
    /\ pc = "returned"
    /\ Len(result) = 2
    /\ result[1] > result[2]
    /\ RLess(ScoreOfPath(result[2]), ScoreOfPath(result[1]))

\* C6: for every tree node, N is the number of backpropagation passes that
\* touched it and Q is the arithmetic mean of the rewards of those passes
\* (0 when there was none).
C6_MeanOfRewards ==
    \A n \in DOMAIN nodes :
        /\ nodes[n].N = hist[n].passes
        /\ nodes[n].Q = IF nodes[n].N = 0 THEN RZero
                        ELSE RDivInt(hist[n].sum, nodes[n].N)

\* Three rewards, -1, -1 and 1/2 in some order, went through the root:
\* N = 3 and Q = -1/2.
C6_Witness ==
    /\ nodes[1].N = 3
    /\ hist[1].sum = <<-3, 2>>
    /\ nodes[1].Q = <<-1, 2>>

IsPrefixSeq(s, t) == Len(s) <= Len(t) /\ SubSeq(t, 1, Len(s)) = s

\* C7: an iteration whose planner call returns the empty list creates no
\* node and changes no children map, backpropagates the reward from the
\* selected node upward, and adds at most one candidate, whose path is
\* terminal and carries the dead_end flag.
C7_DeadEnd ==
    [][(last'.op = "dead_end" /\ it' = it + 1)
       => /\ Len(nodes') = Len(nodes)
          /\ \A n \in DOMAIN nodes :
                /\ nodes'[n].children = nodes[n].children
                /\ nodes'[n].ctx = nodes[n].ctx
                /\ nodes'[n].N = nodes[n].N
                                 + (IF n \in Ancestors(nodes, last'.node) THEN 1 ELSE 0)
          /\ nodes[last'.node].children = <<>>
          /\ nodes'[last'.node].N = nodes[last'.node].N + 1
          /\ IsPrefixSeq(candidates, candidates')
          /\ Len(candidates') <= Len(candidates) + 1
          /\ Len(candidates') = Len(candidates) + 1
                => LET p == candidates'[Len(candidates')]
                   IN /\ heap'.paths[p].terminal
                      /\ "dead_end" \in DOMAIN heap'.dicts[heap'.paths[p].meta]
                      /\ p \notin {heap'.ctxs[nodes'[n].ctx].path : n \in DOMAIN nodes'}]_vars

\* A dead end below the root was collected.
C7_Witness ==
    /\ last.op = "dead_end"
    /\ last.node # 1
    /\ last.ctx # 0
    /\ candidates # <<>>
    /\ candidates[Len(candidates)] = heap.ctxs[last.ctx].path

Pruned(n) == RLess(hist[n].created, cfg.min_score_to_expand)

IsChildOf(n, m) == \E i \in DOMAIN nodes[m].children : nodes[m].children[i][2] = n

\* The last step of node n's path is an action that finished the state.
FinishedByAction(n) ==
    LET steps == StepsOf(heap, nodes[n].ctx)
    IN steps # <<>> /\ "answer" \in DOMAIN steps[Len(steps)].observation

\* C8: a child created with a reward below min_score_to_expand is attached
\* to its parent, done, flagged pruned and childless, and no later iteration
\* calls the planner on it; a child created with a reward not below the
\* floor (equal to it included) is not flagged and is done only through its
\* action.
C8_PrunedNeverExpanded ==
    /\ [](\A n \in DOMAIN nodes : n # 1 =>
             /\ IsChildOf(n, nodes[n].parent)
             /\ Pruned(n) => /\ CtxOfNode(n).done
                             /\ "pruned" \in DOMAIN MetaOf(heap, nodes[n].ctx)
                             /\ nodes[n].children = <<>>
             /\ ~Pruned(n) => /\ "pruned" \notin DOMAIN MetaOf(heap, nodes[n].ctx)
                              /\ CtxOfNode(n).done => FinishedByAction(n))
    /\ [][(it' # it /\ last'.planner > 0) => (last'.node = 1 \/ ~Pruned(last'.node))]_vars

\* A child created with exactly the floor was expanded further, its child
\* was pruned, and a later iteration selected the pruned child again.
C8_Witness ==
    /\ Len(nodes) = 3
    /\ hist[2].created = cfg.min_score_to_expand
    /\ nodes[2].children # <<>>
    /\ Pruned(3)
    /\ ~FinishedByAction(3)
    /\ last.op = "terminal"
    /\ last.node = 3

(***************************************************************************)
(* Properties of _select and of fork.                                      *)
(***************************************************************************)
RootChildren == {nodes[1].children[i][2] : i \in DOMAIN nodes[1].children}

\* C9: when the node has a child with N = 0, selection moves to a child
\* with N = 0, whatever the exploration constant and the other children.
C9_UnvisitedFirst ==
    (pc = "selected" /\ \E ch \in RootChildren : nodes[ch].N = 0)
        => sel \in RootChildren /\ nodes[sel].N = 0

\* The first child has N = 5, Q = 0.4, the second is unvisited and chosen.
C9_Witness ==
    /\ pc = "selected"
    /\ Len(nodes) = 3
    /\ nodes[2].N = 5 /\ nodes[2].Q = <<2, 5>>
    /\ nodes[3].N = 0
    /\ sel = 3

OtherOf(c) == IF c = fk.S THEN fk.F ELSE fk.S

\* C10: after F = S.fork(), a write through S or F (a memory key set or
\* removed, a step appended, a metadata key, done, answer, depth, terminal,
\* total_score) leaves every field of the other unchanged.
C10_ForkIndependent ==
    [][(fk.F # 0 /\ fk'.ops # fk.ops)
       => View(heap', OtherOf(fk'.target)) = View(heap, OtherOf(fk'.target))]_vars

\* S's memory was written after the fork and now differs from F's.
C10_Witness ==
    /\ fk.F # 0
    /\ fk.target = fk.S
    /\ MemoryOf(heap, fk.S) # MemoryOf(heap, fk.F)
    /\ StepsOf(heap, fk.S) # StepsOf(heap, fk.F)
    /\ heap.ctxs[fk.S].memory # heap.ctxs[fk.F].memory


\* C11: once a child node is attached to its parent's children map, no field
\* of its state or of its path is written again: the state a new child has
\* at the end of its iteration is the state it was attached with, and the
\* state of every node attached earlier is left as it is by every step.
C11_NeverWrittenOnceAttached ==
    [][/\ \A n \in 2..Len(nodes) :
            View(heap', nodes[n].ctx) = View(heap, nodes[n].ctx)
       /\ (last'.op = "expand" /\ it' = it + 1)
            => View(heap', last'.ctx) = last'.attached]_vars


\* C12: the state of a node with at least one child is never written: in
\* every step, the one that gives the node its first child included, the
\* node's memory, steps, metadata, total_score, done, answer and depth are
\* after the step what they were before it.
C12_AncestorStateFrozen ==
    [][\A n \in DOMAIN nodes :
          nodes'[n].children # <<>>
            => View(heap', nodes[n].ctx) = View(heap, nodes[n].ctx)]_vars

\* After the root became an ancestor, a dead-end fork of its child was made
\* and collected.
C12_Witness ==
    /\ nodes[1].children # <<>>
    /\ last.op = "dead_end" /\ last.node = 2 /\ last.ctx # 0
    /\ candidates # <<>>


\* The executor's call ended in its except branch.
ExecFailed == "ok" \in DOMAIN call.obs

\* C13: when building or applying the action fails, execute returns the
\* state it was given with memory, view, done, answer and path as they were
\* before the call, and an observation with ok = false, an error type, a
\* message and the penalty.
C13_FailureLeavesState ==
    (pc = "executed" /\ ExecFailed) =>
        /\ call.ctx = 1
        /\ View(heap, 1) = call.before
        /\ DOMAIN call.obs = {"ok", "error_type", "error", "penalty"}
        /\ call.obs.ok = FALSE
        /\ call.obs.penalty = penalize_on_error

\* What the claim's words make of an object handed to build_action: the
\* cases in which it is to raise ActionError.
BuildMustFail(obj) ==
    \/ "dict" \notin DOMAIN obj
    \/ "type" \notin DOMAIN obj.dict
    \/ "str" \notin DOMAIN obj.dict["type"]
    \/ obj.dict["type"].str \notin ACTION_REGISTRY
    \/ ~((DOMAIN obj.dict) \ {"type"} \subseteq
           DOMAIN ActionDefaults(obj.dict["type"].str))
    \/ LET cls == obj.dict["type"].str
           d == ActionDefaults(cls)
       IN Validate(cls, [f \in DOMAIN d |->
                           IF f \in DOMAIN obj.dict THEN obj.dict[f]
                           ELSE Tagged(f, d[f])]) # "ok"

\* C14: build_action raises ActionError when the spec is not a map, its type
\* is missing or not a string, the tag is not registered, a field is not
\* declared or validate() rejects the instance; in every other case it
\* returns an instance of the registered class with the spec's fields set.
C14_BuildOutcome ==
    pc = "built" =>
        IF BuildMustFail(call.spec)
        THEN call.out.raised = "ActionError"
        ELSE /\ call.out.raised = None
             /\ call.out.cls = call.spec.dict["type"].str
             /\ \A f \in (DOMAIN call.spec.dict) \ {"type"} :
                   call.out.action[f] = call.spec.dict[f]


\* C15: when planner.propose raises, the run is left with that exception: it
\* returns no list, and no step of the run or of the pipeline follows, also
\* when candidates were collected before.
C15_PlannerErrorAborts ==
    [][/\ last.op # "planner_raised"
       /\ last'.op = "planner_raised"
            => (pc' = "propagated" /\ result' = <<>> /\ candidates' = candidates)]_vars

\* The planner raised in a run that had collected a candidate.
C15_Witness ==
    /\ pc = "propagated"
    /\ last.op = "planner_raised"
    /\ candidates # <<>>
    /\ it < cfg.num_iters


\* C16: a state collected together with the evaluation result of its
\* iteration gets that result's score as total_score, whatever the path held
\* before, its metadata become the old metadata overlaid with the
\* evaluator's extra map (on a shared key the evaluator's value), and
\* final_answer becomes the state's answer.
C16_CollectedWithEval ==
    (pc = "collected" /\ call.er.some /\ Len(candidates) > Len(call.candidates)) =>
        LET p == PathOf(heap, call.ctx)
            meta == MetaOf(heap, call.ctx)
            old == call.before.meta
            extra == call.er.extra
        IN /\ candidates = Append(call.candidates, heap.ctxs[call.ctx].path)
           /\ p.total_score = call.er.score
           /\ DOMAIN meta = (DOMAIN old) \cup (DOMAIN extra)
           /\ \A k \in DOMAIN meta :
                 meta[k] = IF k \in DOMAIN extra THEN extra[k] ELSE old[k]
           /\ p.final_answer = heap.ctxs[call.ctx].answer

\* A path that held another score and a pruned flag was collected with an
\* evaluation result whose extra map has the same key.
C16_Witness ==
    /\ pc = "collected" /\ call.er.some
    /\ Len(candidates) > Len(call.candidates)
    /\ call.before.total_score # call.er.score
    /\ call.before.total_score # RZero
    /\ "pruned" \in DOMAIN call.before.meta
    /\ "pruned" \in DOMAIN call.er.extra
    /\ MetaOf(heap, call.ctx).pruned = FALSE


\* C17: a child that is done, or whose depth has reached max_depth, has its
\* path marked terminal and its final answer set from its answer field.
C17_StoppedChildIsTerminal ==
    \A n \in 2..Len(nodes) :
        (CtxOfNode(n).done \/ CtxOfNode(n).depth >= cfg.max_depth)
            => /\ PathOf(heap, nodes[n].ctx).terminal
               /\ PathOf(heap, nodes[n].ctx).final_answer = CtxOfNode(n).answer

\* C18: the node selection hands to an iteration has no children or has a
\* done state, and a node handed to the planner has no children and is not
\* done.
C18_SelectionStopsAtLeaf ==
    [][it' = it + 1 =>
         LET n == Selected
         IN /\ last'.node = n
            /\ nodes[n].children = <<>> \/ CtxOfNode(n).done
            /\ last'.planner = 1 => (nodes[n].children = <<>> /\ ~CtxOfNode(n).done)]_vars

\* Selection went past the root, which had a child, to that child, and the
\* child was expanded.
C18_Witness ==
    /\ last.op = "expand"
    /\ last.node = 2
    /\ nodes[1].children # <<>>
    /\ ~CtxOfNode(1).done

\* The list positions that are not keys of the children map.
Untried == {i \in 0..(Len(call.action_specs) - 1) : i \notin ChildKeys(call.children)}

\* C19: _pick_untried_or_best returns the smallest list position that is not
\* a key of the children map, with the spec at that position; when every
\* position is a key, position 0 with the spec at position 0.
C19_PickSmallestUntried ==
    pc = "picked" =>
        IF Untried # {}
        THEN /\ call.out[1] \in Untried
             /\ \A i \in Untried : call.out[1] <= i
             /\ call.out[2] = call.action_specs[call.out[1] + 1]
        ELSE call.out = <<0, call.action_specs[1]>>

\* Position 0 was a key, position 1 was not, and position 1 was returned
\* with a spec other than the one at position 0.
C19_Witness ==
    /\ pc = "picked"
    /\ 0 \in ChildKeys(call.children)
    /\ call.out[1] = 1
    /\ call.out[2] # call.action_specs[1]

\* C20: an iteration whose selected node is done or at the depth limit
\* calls no planner, executor or evaluator, creates no node, leaves N and Q
\* of every node and every state as they are, and either leaves the
\* candidate list alone or appends the selected node's path to it.
C20_TerminalIterationFrame ==
    [][(it' = it + 1 /\ (CtxOfNode(Selected).done
                         \/ CtxOfNode(Selected).depth >= cfg.max_depth)) =>
         /\ last'.planner = 0 /\ last'.executor = 0 /\ last'.evaluator = 0
         /\ nodes' = nodes
         /\ heap' = heap
         /\ \/ candidates' = candidates
            \/ candidates' = Append(candidates, heap.ctxs[nodes[Selected].ctx].path)]_vars

\* A done leaf was selected again and its path, collected when the leaf was
\* created, was appended a second time.
C20_Witness ==
    /\ last.op = "terminal"
    /\ last.node >= 2
    /\ CtxOfNode(last.node).done
    /\ Len(candidates) >= 2
    /\ candidates[Len(candidates)] = CtxOfNode(last.node).path

\* The latest step of context c records a failed action.
FailedStep(h, c) ==
    /\ StepsOf(h, c) # <<>>
    /\ "ok" \in DOMAIN StepsOf(h, c)[Len(StepsOf(h, c))].observation

\* C21: an expansion whose action failed is handled as any other: a child is
\* attached below the selected node, its path is the parent's path with one
\* more step, its depth the parent's depth plus one, the evaluator is called
\* once, every node from the child up to the root gets one more visit and
\* the reward, the child is collected when it is done or terminal and the
\* quota is not full, and the run goes on or breaks, it does not raise.
C21_FailedActionIsAStep ==
    [][(it' = it + 1 /\ last'.op = "expand" /\ last'.failed) =>
         LET n == last'.node
             child == last'.child
             c == last'.ctx
         IN /\ child = Len(nodes) + 1 /\ Len(nodes') = child
            /\ nodes'[child].parent = n /\ nodes'[child].ctx = c
            /\ child \in {nodes'[n].children[i][2] : i \in DOMAIN nodes'[n].children}
            /\ Len(StepsOf(heap', c)) = Len(StepsOf(heap, nodes[n].ctx)) + 1
            /\ IsPrefixSeq(StepsOf(heap, nodes[n].ctx), StepsOf(heap', c))
            /\ FailedStep(heap', c)
            /\ heap'.ctxs[c].depth = heap.ctxs[nodes[n].ctx].depth + 1
            /\ last'.evaluator = 1 /\ last'.executor = 1
            /\ nodes'[child].N = 1 /\ nodes'[child].Q = last'.reward
            /\ \A m \in Ancestors(nodes, n) :
                  /\ nodes'[m].N = nodes[m].N + 1
                  /\ hist'[m].sum = RAdd(hist[m].sum, last'.reward)
            /\ 1 \in Ancestors(nodes, n)
            /\ ((heap'.ctxs[c].done \/ PathOf(heap', c).terminal)
                  /\ Len(candidates) < cfg.max_candidates)
                 => candidates' = Append(candidates, heap'.ctxs[c].path)
            /\ pc' \in {"loop", "break"}]_vars

\* A failed Finish below the root's child: the grandchild was attached,
\* pruned by its reward and collected, and the root has its third visit.
C21_Witness ==
    /\ last.op = "expand"
    /\ last.child = 3
    /\ last.failed
    /\ FailedStep(heap, last.ctx)
    /\ CtxOfNode(3).depth = 2
    /\ nodes[1].N >= 2
    /\ candidates # <<>>
    /\ candidates[Len(candidates)] = CtxOfNode(3).path

\* C22: the planner is never called on a state whose depth has reached
\* max_depth, and no node of the tree has a depth above max_depth.
C22_DepthBounded ==
    [][/\ \A n \in DOMAIN nodes' : heap'.ctxs[nodes'[n].ctx].depth <= cfg.max_depth
       /\ (it' = it + 1 /\ last'.planner = 1)
            => heap.ctxs[nodes[last'.node].ctx].depth < cfg.max_depth]_vars

\* A leaf at depth max_depth = 2 that is not done was selected and left
\* alone.
C22_Witness ==
    /\ cfg.max_depth = 2
    /\ last.op = "terminal"
    /\ ~CtxOfNode(last.node).done
    /\ CtxOfNode(last.node).depth = cfg.max_depth
    /\ last.planner = 0
    /\ nodes[last.node].children = <<>>

\* The run is over: it returned its list or an exception left it.
RunLeft == pc \in {"returned", "answered", "raised", "propagated"}

\* C23: the run ends, after at most num_iters iterations; an iteration calls
\* the planner, the executor and the evaluator at most once each; the tree
\* selection walks is acyclic: every node's parent was created before it.
C23_RunTerminates ==
    /\ [](/\ it <= cfg.num_iters
          /\ last.planner <= 1 /\ last.executor <= 1 /\ last.evaluator <= 1
          /\ \A n \in 2..Len(nodes) : nodes[n].parent \in 1..(n - 1))
    /\ <>RunLeft

\* The run returned after it used its whole budget of three iterations,
\* the last of them an expansion.
C23_Witness ==
    /\ pc = "returned"
    /\ it = cfg.num_iters
    /\ it = MaxIters
    /\ last.op = "expand"
    /\ Len(nodes) = 3

\* The positions (from 1) of the headers whose normalized form is key.
ExactAt(headers, key) == {j \in DOMAIN headers : Norm(headers[j]) = key}

\* The positions of the headers whose normalized form contains key or is
\* contained in it.
SoftAt(headers, key) ==
    {j \in DOMAIN headers : \/ Contains(key, Norm(headers[j]))
                            \/ Contains(Norm(headers[j]), key)}

\* The last position that holds the same normalized header as position j.
LastLike(headers, j) ==
    CHOOSE m \in ExactAt(headers, Norm(headers[j])) :
        \A o \in ExactAt(headers, Norm(headers[j])) : o <= m

\* C24: resolve_col(name) answers the index of the last column whose
\* normalized header equals the normalized name when there is one; otherwise
\* it takes the shortest normalized header that contains the normalized name
\* or is contained in it, the one met first in header order among equally
\* short ones, and answers the index header_index maps it to; it raises
\* KeyError exactly when no header matches by equality or containment.
C24_ResolveCol ==
    pc = "resolved" =>
        LET headers == call.headers
            key == Norm(call.name)
            exact == ExactAt(headers, key)
            soft == SoftAt(headers, key)
        IN /\ exact # {} =>
                /\ call.out.raised = "none"
                /\ call.out.value + 1 \in exact
                /\ \A j \in exact : j <= call.out.value + 1
           /\ (exact = {} /\ soft # {}) =>
                /\ call.out.raised = "none"
                /\ \E j \in soft :
                      /\ \A m \in soft : Len(Norm(headers[j])) <= Len(Norm(headers[m]))
                      /\ \A m \in soft :
                            Len(Norm(headers[m])) = Len(Norm(headers[j])) => j <= m
                      /\ call.out.value + 1 = LastLike(headers, j)
           /\ call.out.raised = "KeyError" <=> soft = {}
           /\ exact \subseteq soft

C24_Witness ==
    /\ pc = "resolved"
    /\ call.name = <<"a">>
    /\ call.headers = << <<"A", "b">>, <<"b", "a">> >>
    /\ call.out = [raised |-> "none", value |-> 0]

\* An attempt that ends in a parse error or a request error.
Failures ==
    {"unparsed", "LLMParseError", "LLMRequestError", "LLMRateLimitError",
     "LLMTimeoutError"}

\* C25: json_chat_with_retry calls chat_fn at most max_retries + 1 times; the
\* first call gets the original system prompt and every later one the
\* strengthened prompt; it returns the parsed value of the first attempt
\* that parses and makes no call after it; it raises LLMParseError when
\* max_retries + 1 attempts have all ended in a parse or request error; an
\* exception of chat_fn that is neither propagates from the attempt that met
\* it, and no attempt follows.
C25_RetryLoop ==
    /\ [](call.max_retries >= 0 => Len(call.prompts) <= call.max_retries + 1)
    /\ [](\A k \in DOMAIN call.prompts :
             call.prompts[k] = IF k = 1 THEN call.system_prompt
                               ELSE Strengthened(call.system_prompt))
    /\ [](\A k \in DOMAIN call.outcomes :
             k < Len(call.outcomes) => call.outcomes[k] \in Failures)
    /\ [](pc = "returned" <=>
             (call.outcomes # <<>> /\ call.outcomes[Len(call.outcomes)] = "parsed"))
    /\ [](pc = "returned" => call.raised = "None" /\ IsJson(call.value))
    /\ []((pc = "raised" /\ call.raised = "LLMParseError")
             <=> /\ pc # "attempt"
                 /\ Len(call.outcomes) = Max2(0, call.max_retries + 1)
                 /\ \A k \in DOMAIN call.outcomes : call.outcomes[k] \in Failures)
    /\ []((call.outcomes # <<>>
               /\ call.outcomes[Len(call.outcomes)] \notin Failures \cup {"parsed"})
             <=> (pc = "raised" /\ call.raised # "LLMParseError"))
    /\ []((pc = "raised" /\ call.raised # "LLMParseError")
             => call.raised = call.outcomes[Len(call.outcomes)])
    /\ [][pc # "attempt" => UNCHANGED call]_vars
    /\ [][(pc' = "returned" /\ pc = "attempt") =>
             \E out \in ChatOutputs :
                /\ ~parse_json(out).raised
                /\ call'.value = parse_json(out).value]_vars

C25_Witness ==
    /\ pc = "returned"
    /\ call.fn = "json_chat_with_retry"
    /\ call.max_retries = 2
    /\ call.outcomes = <<"LLMTimeoutError", "unparsed", "parsed">>
    /\ call.prompts = <<call.system_prompt, Strengthened(call.system_prompt),
                        Strengthened(call.system_prompt)>>
    /\ call.value = <<"[", "1", "]">>

\* C26: in every state of the run a node has at most one child and its key
\* is 0; a children map that holds a child is never written again; every
\* expansion executes the proposal at position 0 below a node that had no
\* child, so the all-tried answer of _pick_untried_or_best is never taken.
C26_SingleChildChain ==
    /\ [](\A n \in DOMAIN nodes :
             /\ Len(nodes[n].children) <= 1
             /\ ChildKeys(nodes[n].children) \subseteq {0}
             /\ n > 1 => nodes[n].last_action_index = 0)
    /\ [][\A n \in DOMAIN nodes :
             nodes[n].children # <<>> => nodes'[n].children = nodes[n].children]_vars
    /\ [][(it' = it + 1 /\ last'.op = "expand") =>
             /\ nodes[last'.node].children = <<>>
             /\ nodes'[last'.node].children = <<<<0, last'.child>>>>]_vars

C26_Witness ==
    /\ Len(nodes) = 3
    /\ nodes[1].children = <<<<0, 2>>>>
    /\ nodes[2].children = <<<<0, 3>>>>
    /\ nodes[3].children = <<>>
    /\ last.op = "terminal"

\* The entry was collected from a dead-end fork.
IsDeadEndEntry(p) == "dead_end" \in DOMAIN heap.dicts[heap.paths[p].meta]

\* C27: after an iteration that selected a node which is done or at the depth
\* limit, no node's N, Q or children changes again and every later iteration
\* selects the same node; in every state the entries of candidates that are
\* not dead-end entries are the path of one node, a leaf.
C27_FrozenTree ==
    /\ [][last.op = "terminal" =>
             /\ nodes' = nodes
             /\ it' = it + 1 => (last'.op = "terminal" /\ last'.node = last.node)]_vars
    /\ [](\E n \in DOMAIN nodes :
             /\ nodes[n].children = <<>>
             /\ \A i \in DOMAIN candidates :
                   ~IsDeadEndEntry(candidates[i]) => candidates[i] = CtxOfNode(n).path)

C27_Witness ==
    /\ last.op = "terminal"
    /\ last.node = 2
    /\ it = 3
    /\ nodes[2].N = 1
    /\ CtxOfNode(2).done
    /\ candidates = <<CtxOfNode(2).path, CtxOfNode(2).path>>

\* C28: a child whose reward is below min_score_to_expand is done and marked
\* pruned, its path is terminal with the state's answer as final_answer, and
\* the iteration that creates it appends the path to candidates whenever the
\* list holds fewer than max_candidates entries.
C28_PrunedCollected ==
    [][(it' = it + 1 /\ last'.op = "expand"
          /\ RLess(last'.reward, cfg.min_score_to_expand)) =>
         LET c == last'.ctx
             p == heap'.ctxs[c].path
         IN /\ heap'.ctxs[c].done
            /\ "pruned" \in DOMAIN heap'.dicts[heap'.paths[p].meta]
            /\ heap'.paths[p].terminal
            /\ heap'.paths[p].final_answer = heap'.ctxs[c].answer
            /\ Len(candidates) < cfg.max_candidates =>
                  /\ candidates' = Append(candidates, p)
                  /\ heap'.paths[p].total_score = last'.reward
            /\ Len(candidates) >= cfg.max_candidates => candidates' = candidates]_vars

C28_Witness ==
    /\ pc = "returned"
    /\ \E i \in DOMAIN result :
          /\ "pruned" \in DOMAIN heap.dicts[heap.paths[result[i]].meta]
          /\ heap.paths[result[i]].terminal
          /\ heap.paths[result[i]].final_answer = None
          /\ \E n \in DOMAIN nodes : CtxOfNode(n).path = result[i]

\* C29: in every state of the run every node but the root has N >= 1: the
\* iteration that attaches a child leaves it with N = 1 and Q equal to its
\* reward; so ucb_score is never asked about a child with N = 0 and answers
\* no infinite score during selection.
C29_ChildrenVisited ==
    /\ [](\A n \in 2..Len(nodes) : nodes[n].N >= 1)
    /\ [][(it' = it + 1 /\ last'.op = "expand") =>
             /\ nodes'[last'.child].N = 1
             /\ nodes'[last'.child].Q = last'.reward]_vars
    /\ [](\A n \in DOMAIN nodes : \A i \in DOMAIN nodes[n].children :
             ucb_score(nodes[n].N + 1, nodes[nodes[n].children[i][2]].Q,
                       nodes[nodes[n].children[i][2]].N, cfg.exploration_c) # PlusInf)

C29_Witness ==
    /\ pc = "loop"
    /\ it = 2
    /\ it < cfg.num_iters
    /\ last.op = "expand"
    /\ last.child = 3
    /\ nodes[3].N = 1
    /\ nodes[3].Q = last.reward
    /\ nodes[2].N = 2
    /\ Selected = 3

\* The number of parent links between node n and the root.
Distance(n) == Cardinality(Ancestors(nodes, n)) - 1

\* C30: with the root at depth 0 with an empty path and an executor that
\* answers the state it was given, every node's depth is its distance from
\* the root and the number of steps of its path, and a child's steps are its
\* parent's steps followed by exactly one step.
C30_DepthIsDistance ==
    \A n \in DOMAIN nodes :
        /\ CtxOfNode(n).depth = Distance(n)
        /\ Len(StepsOf(heap, nodes[n].ctx)) = CtxOfNode(n).depth
        /\ n > 1 =>
              /\ Len(StepsOf(heap, nodes[n].ctx))
                    = Len(StepsOf(heap, nodes[nodes[n].parent].ctx)) + 1
              /\ IsPrefixSeq(StepsOf(heap, nodes[nodes[n].parent].ctx),
                             StepsOf(heap, nodes[n].ctx))

C30_Witness ==
    /\ Len(nodes) = 3
    /\ nodes[3].parent = 2
    /\ CtxOfNode(3).depth = 2
    /\ Len(StepsOf(heap, nodes[3].ctx)) = 2
    /\ Len(StepsOf(heap, nodes[2].ctx)) = 1
    /\ StepsOf(heap, nodes[1].ctx) = <<>>

====
